---- MODULE Spec2Model ----
(***************************************************************************)
(* A model of the rule-based column classifier (predict.py), the column    *)
(* parser (parser.py) and the line-delimited JSON tool server              *)
(* (mcp_server/server.py).                                                 *)
(*                                                                         *)
(* A Python str is a sequence of one-character strings.  Two code points   *)
(* outside ASCII are named by tokens: "Idot" is U+0130 (capital I with dot *)
(* above) and "cdot" is U+0307 (combining dot above); str.lower() maps     *)
(* U+0130 to the two code points "i" U+0307.                               *)
(* A float score n/d is kept as the exact fraction <<n, d>>; IEEE division *)
(* is correctly rounded, so comparing the floats agrees with comparing the *)
(* fractions for the small counts modelled here.                           *)
(***************************************************************************)
EXTENDS Integers, Sequences, FiniteSets, TLC

VARIABLES
    raw,             \* the argument of parse_phone_number / parse_company_name
    ret,             \* <<>> before the call, <<result>> after it
    legal_suffixes,  \* what load_legal_suffixes() returned
    countries,       \* what load_countries() returned
    values,          \* predict.py main(): the list of strings of the column
    scores,          \* predict.py main(): <<>> or <<the scores dict>>
    best_label,      \* predict.py main(): the printed label ("" before)
    df,              \* the table read by pd.read_csv
    astype_keeps_na, \* pandas >= 3: astype(str) keeps a missing cell missing
    handed,          \* the value lists handed to the scorers, one per column
    out_df,          \* parser.py main(): the table written to output.csv
    best,            \* parser.py main(): <<>> or <<(best_col, best_type, best_score)>>
    pc,              \* the position of the predict.py / parser.py process
    stdin,           \* server main(): the lines read so far
    stdout,          \* server main(): the responses printed so far
    loop             \* server main(): "reading", "ended" (end of input), "crashed"

vars == <<raw, ret, legal_suffixes, countries, values, scores, best_label,
          df, astype_keeps_na, handed, out_df, best, pc, stdin, stdout, loop>>

textVars == <<raw, ret>>
predictVars == <<values, scores, best_label>>
tableVars == <<df, astype_keeps_na, handed, out_df, best, pc>>
serverVars == <<stdin, stdout, loop>>

----------------------------------------------------------------------------
(* Bounds of the model *)

MaxLen == 4
MaxValues == 5
MaxProbeValues == 2
MaxDigits == 16
MaxRows == 2
MaxLines == 2

----------------------------------------------------------------------------
(* Characters and the str methods the code uses *)

DIGITS == {"0", "1", "2", "3", "4", "5", "6", "7", "8", "9"}

UPPER == <<"A", "B", "C", "D", "E", "F", "G", "H", "I", "J", "K", "L", "M",
           "N", "O", "P", "Q", "R", "S", "T", "U", "V", "W", "X", "Y", "Z">>

LOWER == <<"a", "b", "c", "d", "e", "f", "g", "h", "i", "j", "k", "l", "m",
           "n", "o", "p", "q", "r", "s", "t", "u", "v", "w", "x", "y", "z">>

Range(f) == {f[i] : i \in DOMAIN f}

\* \d of the re module
IsDigit(c) == c \in DIGITS

\* what str.strip() removes
IsSpace(c) == c \in {" ", "\t"}

\* \w of the re module: a letter, a digit or the underscore
WORD_CHARS == Range(UPPER) \cup Range(LOWER) \cup DIGITS \cup {"_", "Idot"}

IsWord(c) == c \in WORD_CHARS

\* str.lower() of one character: a sequence, because U+0130 lowers to two
LOWER_OF == [c \in Range(UPPER) |-> LOWER[CHOOSE i \in DOMAIN UPPER : UPPER[i] = c]]

LowerChar(c) ==
    IF c = "Idot" THEN <<"i", "cdot">>
    ELSE IF c \in DOMAIN LOWER_OF THEN <<LOWER_OF[c]>>
    ELSE <<c>>

RECURSIVE lower(_)
lower(s) == IF s = <<>> THEN <<>> ELSE LowerChar(Head(s)) \o lower(Tail(s))

RECURSIVE lstrip(_, _)
lstrip(s, chars) ==
    IF s # <<>> /\ Head(s) \in chars THEN lstrip(Tail(s), chars) ELSE s

RECURSIVE rstrip(_, _)
rstrip(s, chars) ==
    IF s # <<>> /\ s[Len(s)] \in chars
    THEN rstrip(SubSeq(s, 1, Len(s) - 1), chars) ELSE s

\* the slice s[lo:hi] for 0 <= lo, hi: Python clamps both ends to len(s)
py_slice(s, lo, hi) ==
    LET top == IF hi > Len(s) THEN Len(s) ELSE hi
    IN IF lo >= top THEN <<>> ELSE SubSeq(s, lo + 1, top)

\* s.strip(chars)
strip_chars(s, chars) == rstrip(lstrip(s, chars), chars)

\* s.strip()
strip(s) == strip_chars(s, {" ", "\t"})

\* re.sub(r"\D", "", s)
RECURSIVE digits_of(_)
digits_of(s) ==
    IF s = <<>> THEN <<>>
    ELSE IF IsDigit(Head(s)) THEN <<Head(s)>> \o digits_of(Tail(s))
         ELSE digits_of(Tail(s))

----------------------------------------------------------------------------
(* parser.py: parse_phone_number *)

US == <<"U", "S">>
UK == <<"U", "K">>
India == <<"I", "n", "d", "i", "a">>

DIAL_CODE_TO_COUNTRY ==
    (<<"1">> :> US) @@ (<<"4", "4">> :> UK) @@ (<<"9", "1">> :> India)

\* the loop "for length in (3, 2, 1)" with its break; the default is
\* country = "" and subscriber_number = digits
RECURSIVE try_dial_codes(_, _)
try_dial_codes(digits, lengths) ==
    IF lengths = <<>> THEN <<<<>>, digits>>
    ELSE LET length == Head(lengths)
             code == py_slice(digits, 0, length)
         IN IF Len(digits) >= length /\ code \in DOMAIN DIAL_CODE_TO_COUNTRY
            THEN <<DIAL_CODE_TO_COUNTRY[code],
                   py_slice(digits, length, Len(digits))>>
            ELSE try_dial_codes(digits, Tail(lengths))

parse_phone_number_nomarker(r) ==
    LET digits == digits_of(strip(r))
    IN IF digits = <<>> THEN <<<<>>, <<>>>>
       ELSE try_dial_codes(digits, <<3, 2, 1>>)

parse_phone_number(r) ==
    LET s == strip(r)
        digits == digits_of(s)
    IN IF digits = <<>> THEN <<<<>>, <<>>>>
       ELSE IF s # <<>> /\ Head(s) = "+"
            THEN try_dial_codes(digits, <<3, 2, 1>>)
            ELSE <<<<>>, digits>>

----------------------------------------------------------------------------
(* predict.py: load_legal_suffixes, load_countries *)

\* A text resource: whether the path exists, and its lines
NO_FILE == [exists |-> FALSE, lines |-> <<>>]

TextFile(ls) == [exists |-> TRUE, lines |-> ls]

\* suffixes.sort(key=len, reverse=True) is stable: x goes after every element
\* at least as long as it
RECURSIVE insert_by_len(_, _)
insert_by_len(sorted, x) ==
    IF sorted = <<>> THEN <<x>>
    ELSE IF Len(Head(sorted)) >= Len(x)
         THEN <<Head(sorted)>> \o insert_by_len(Tail(sorted), x)
         ELSE <<x>> \o sorted

RECURSIVE sort_by_len_desc(_, _)
sort_by_len_desc(done, todo) ==
    IF todo = <<>> THEN done
    ELSE sort_by_len_desc(insert_by_len(done, Head(todo)), Tail(todo))

\* the lines kept by the reading loop, in file order
RECURSIVE read_suffix_lines(_)
read_suffix_lines(ls) ==
    IF ls = <<>> THEN <<>>
    ELSE LET line == lower(strip(Head(ls)))
         IN IF line = <<>> \/ Head(line) = "#"
            THEN read_suffix_lines(Tail(ls))
            ELSE <<line>> \o read_suffix_lines(Tail(ls))

load_legal_suffixes(file) ==
    IF ~file.exists THEN <<>>
    ELSE sort_by_len_desc(<<>>, read_suffix_lines(file.lines))

load_countries(file) ==
    IF ~file.exists THEN {}
    ELSE {lower(strip(file.lines[i])) :
             i \in {j \in DOMAIN file.lines : strip(file.lines[j]) # <<>>}}

----------------------------------------------------------------------------
(* re.search(r"\b" + re.escape(suf) + r"\b", low): m.start(), or -1 for None. *)
(* parse_company_name appends r"\.?" to the pattern, an optional final *)
(* period that changes neither whether it matches nor where the match starts. *)

\* \b at offset p of t: exactly one of t[p-1], t[p] (0-based) is a \w character
word_boundary(t, p) ==
    LET before == p >= 1 /\ IsWord(t[p])
        after == p + 1 <= Len(t) /\ IsWord(t[p + 1])
    IN before # after

match_at(suf, t, i) ==
    /\ i + Len(suf) <= Len(t)
    /\ \A j \in 1..Len(suf) : t[i + j] = suf[j]
    /\ word_boundary(t, i)
    /\ word_boundary(t, i + Len(suf))

RECURSIVE re_search_from(_, _, _)
re_search_from(suf, t, i) ==
    IF i + Len(suf) > Len(t) THEN -1
    ELSE IF match_at(suf, t, i) THEN i
         ELSE re_search_from(suf, t, i + 1)

re_search_word(suf, t) == re_search_from(suf, t, 0)

----------------------------------------------------------------------------
(* parser.py: parse_company_name *)

TRIM_CHARS_no_period == {" ", ",", "-"}

TRIM_CHARS == {" ", ",", ".", "-"}

RECURSIVE split_at_first_suffix(_, _, _)
split_at_first_suffix(s, low, suffixes) ==
    IF suffixes = <<>> THEN <<s, <<>>>>
    ELSE LET start == re_search_word(Head(suffixes), low)
         IN IF start >= 0
            THEN <<strip_chars(py_slice(s, 0, start), TRIM_CHARS),
                   strip_chars(py_slice(s, start, Len(s)), TRIM_CHARS)>>
            ELSE split_at_first_suffix(s, low, Tail(suffixes))

parse_company_name(r, suffixes) ==
    LET s == strip(r)
    IN IF s = <<>> THEN <<<<>>, <<>>>>
       ELSE split_at_first_suffix(s, lower(s), suffixes)

----------------------------------------------------------------------------
(* predict.py: the predicates on one value *)

DATE_ISO == <<"2", "0", "2", "0", "-", "0", "1", "-", "0", "2">>
DATE_DOTTED == <<"0", "8", ".", "0", "2", ".", "2", "0">>

\* date_parser.parse(s, dayfirst=True, fuzzy=False) returns without raising:
\* dateutil is a library outside the repository, modelled by the strings of
\* the model's inputs that it parses
dateutil_parses(s) == s \in {DATE_ISO, DATE_DOTTED}

is_parsable_date(v) ==
    LET s == strip(v)
    IN IF s = <<>> THEN FALSE ELSE dateutil_parses(s)

looks_like_phone_no_upper(v) ==
    LET s == strip(v)
    IN IF s = <<>> THEN FALSE ELSE 7 <= Len(digits_of(s))

looks_like_phone(v) ==
    LET s == strip(v)
    IN IF s = <<>> THEN FALSE
       ELSE LET digits == digits_of(s)
            IN 7 <= Len(digits) /\ Len(digits) <= 15

\* k in low
contains(low, k) ==
    \E i \in 0..(Len(low) - Len(k)) : \A j \in 1..Len(k) : low[i + j] = k[j]

KEYWORDS ==
    <<<<"l", "t", "d">>, <<"l", "i", "m", "i", "t", "e", "d">>, <<"i", "n", "c">>,
      <<"c", "o", "r", "p">>, <<"c", "o", "m", "p", "a", "n", "y">>,
      <<"c", "o", ".">>, <<"g", "m", "b", "h">>, <<"b", "a", "n", "k">>,
      <<"p", "l", "c">>>>

looks_like_company(v, suffixes) ==
    LET s == strip(v)
        low == lower(s)
    IN IF s = <<>> THEN FALSE
       ELSE \/ \E n \in DOMAIN suffixes : re_search_word(suffixes[n], low) >= 0
            \/ \E n \in DOMAIN KEYWORDS : contains(low, KEYWORDS[n])

----------------------------------------------------------------------------
(* predict.py: the scorers.  A score is the fraction <<numerator, denominator>>; *)
(* the literal 0.0 is <<0, 1>>. *)

Max(a, b) == IF a >= b THEN a ELSE b

\* comparisons of two fractions with positive denominators
frac_ge(a, b) == a[1] * b[2] >= b[1] * a[2]
frac_gt(a, b) == a[1] * b[2] > b[1] * a[2]
frac_lt(a, b) == a[1] * b[2] < b[1] * a[2]
frac_eq(a, b) == a[1] * b[2] = b[1] * a[2]

\* sum(1 for v in values if looks_like_phone(v))
RECURSIVE count_phone(_)
count_phone(vs) ==
    IF vs = <<>> THEN 0
    ELSE (IF looks_like_phone(Head(vs)) THEN 1 ELSE 0) + count_phone(Tail(vs))

RECURSIVE count_date(_)
count_date(vs) ==
    IF vs = <<>> THEN 0
    ELSE (IF is_parsable_date(Head(vs)) THEN 1 ELSE 0) + count_date(Tail(vs))

RECURSIVE count_company(_, _)
count_company(vs, suffixes) ==
    IF vs = <<>> THEN 0
    ELSE (IF looks_like_company(Head(vs), suffixes) THEN 1 ELSE 0)
         + count_company(Tail(vs), suffixes)

score_phone(vs) == <<count_phone(vs), Max(Len(vs), 1)>>

score_date(vs) == <<count_date(vs), Max(Len(vs), 1)>>

score_company(vs, suffixes) == <<count_company(vs, suffixes), Max(Len(vs), 1)>>

\* the loop of score_country: <<hits, total>> after the values vs
RECURSIVE country_loop(_, _, _, _)
country_loop(vs, countries_set, hits, total) ==
    IF vs = <<>> THEN <<hits, total>>
    ELSE LET v == lower(strip(Head(vs)))
         IN IF v = <<>> THEN country_loop(Tail(vs), countries_set, hits, total)
            ELSE country_loop(Tail(vs), countries_set,
                              IF v \in countries_set THEN hits + 1 ELSE hits,
                              total + 1)

score_country_all_values(vs, countries_set) ==
    IF countries_set = {} THEN <<0, 1>>
    ELSE LET hits == country_loop(vs, countries_set, 0, 0)[1]
         IN IF Len(vs) = 0 THEN <<0, 1>> ELSE <<hits, Len(vs)>>

score_country(vs, countries_set) ==
    IF countries_set = {} THEN <<0, 1>>
    ELSE LET ht == country_loop(vs, countries_set, 0, 0)
         IN IF ht[2] = 0 THEN <<0, 1>> ELSE ht

----------------------------------------------------------------------------
(* predict.py main(), lines 144-165: the scores dict and the label *)

\* the keys of the scores dict, in insertion order
SCORE_KEYS == <<"PhoneNumber", "Date", "Country", "CompanyName">>

compute_scores(vs, countries_set, suffixes) ==
    [k \in Range(SCORE_KEYS) |->
        CASE k = "PhoneNumber" -> score_phone(vs)
          [] k = "Date" -> score_date(vs)
          [] k = "Country" -> score_country(vs, countries_set)
          [] k = "CompanyName" -> score_company(vs, suffixes)]

\* max(keys, key=sc.get): the first key is kept until a strictly greater one
RECURSIVE max_key_from(_, _, _)
max_key_from(sc, keys, kept) ==
    IF keys = <<>> THEN kept
    ELSE max_key_from(sc, Tail(keys),
                      IF frac_gt(sc[Head(keys)], sc[kept]) THEN Head(keys) ELSE kept)

RECURSIVE max_key_last(_, _, _)
max_key_last(sc, keys, kept) ==
    IF keys = <<>> THEN kept
    ELSE max_key_last(sc, Tail(keys),
                      IF frac_ge(sc[Head(keys)], sc[kept]) THEN Head(keys) ELSE kept)

max_key_last_wins(sc) == max_key_last(sc, Tail(SCORE_KEYS), Head(SCORE_KEYS))

max_key(sc) == max_key_from(sc, Tail(SCORE_KEYS), Head(SCORE_KEYS))

choose_label(sc) ==
    IF frac_ge(sc["PhoneNumber"], <<8, 10>>) THEN "PhoneNumber"
    ELSE IF frac_ge(sc["Date"], <<8, 10>>) THEN "Date"
    ELSE IF frac_ge(sc["Country"], <<8, 10>>) THEN "Country"
    ELSE LET label == max_key(sc)
         IN IF frac_lt(sc[label], <<3, 10>>) THEN "Other" ELSE label

----------------------------------------------------------------------------
(* Inputs of the text functions *)

PhoneChars == {"+", "1", "4", "9", "5", " "}

PHONE_US == <<"+", "1", "4", "1", "5", "5", "5", "5", "2", "6", "7", "1">>
PHONE_LOCAL == <<"5", "5", "5", "1", "2", "3", "4">>
PHONE_UK == <<" ", "+", "4", "4", " ", "2", "0", "-", "7", "9", "4", "6">>
PHONE_NO_PLUS == <<"9", "1", "-", "2", "2", "5", "5", "5", "1", "2", "3", "4">>

PhoneSamples == {PHONE_US, PHONE_LOCAL, PHONE_UK, PHONE_NO_PLUS}

CompanyChars == {"a", "G", " ", ".", "Idot"}

ACME_INC == <<"A", "c", "m", "e", " ", "W", "i", "d", "g", "e", "t", "s", ",",
              " ", "I", "n", "c", ".">>
STANDALONE == <<"S", "t", "a", "n", "d", "a", "l", "o", "n", "e", " ", "N", "a",
                "m", "e">>
ACME_CO_LTD == <<"A", "c", "m", "e", " ", "C", "o", ".", ",", " ", "L", "t", "d",
                 ".">>
INCA_LTD == <<" ", "I", "n", "c", "a", " ", "-", " ", "L", "T", "D", " ", "i",
              "n", "c", " ">>

IDOT_INC == <<"Idot", " ", "I", "n", "c">>

CompanySamples == {ACME_INC, STANDALONE, ACME_CO_LTD, INCA_LTD, IDOT_INC}

inc == <<"i", "n", "c">>
ltd == <<"l", "t", "d">>

\* contents of data/legal.txt
LEGAL_INC == TextFile(<<inc>>)
LEGAL_INC_LTD == TextFile(<<inc, ltd>>)
LEGAL_CO == TextFile(<<<<"c", "o">>, <<"#", " ", "x">>,
                       <<"C", "o", ".", ",", " ", "L", "t", "d">>>>)
LEGAL_AG == TextFile(<<<<"g">>, <<>>, <<" ", "A", "G", " ">>>>)

LegalFiles == {NO_FILE, LEGAL_INC, LEGAL_INC_LTD, LEGAL_CO, LEGAL_AG}

\* contents of data/countries.txt
COUNTRIES_TXT == TextFile(<<<<"F", "r", "a", "n", "c", "e", " ">>, <<>>, India>>)

CountryFiles == {NO_FILE, COUNTRIES_TXT}

----------------------------------------------------------------------------
(* The states in which a part of the program has not been started *)

TextIdle == raw = <<>> /\ ret = <<>>

PredictIdle == values = <<>> /\ scores = <<>> /\ best_label = <<>>

TableIdle ==
    /\ df = <<>> /\ astype_keeps_na = FALSE /\ handed = <<>>
    /\ out_df = <<>> /\ best = <<>> /\ pc = "idle"

ServerIdle == stdin = <<>> /\ stdout = <<>> /\ loop = "reading"

----------------------------------------------------------------------------
(* parse_phone_number applied to a raw string *)

InitPhone ==
    /\ TextIdle /\ PredictIdle /\ TableIdle /\ ServerIdle
    /\ legal_suffixes = <<>>
    /\ countries = {}

TypePhoneChar(c) ==
    /\ ret = <<>>
    /\ Len(raw) < MaxLen
    /\ raw' = Append(raw, c)
    /\ UNCHANGED <<ret, legal_suffixes, countries, predictVars, tableVars, serverVars>>

LoadPhoneSample(s) ==
    /\ ret = <<>>
    /\ raw = <<>>
    /\ raw' = s
    /\ UNCHANGED <<ret, legal_suffixes, countries, predictVars, tableVars, serverVars>>

CallParsePhoneNumber ==
    /\ ret = <<>>
    /\ ret' = <<parse_phone_number(raw)>>
    /\ UNCHANGED <<raw, legal_suffixes, countries, predictVars, tableVars, serverVars>>

NextPhone ==
    \/ \E c \in PhoneChars : TypePhoneChar(c)
    \/ \E s \in PhoneSamples : LoadPhoneSample(s)
    \/ CallParsePhoneNumber

SpecPhone == InitPhone /\ [][NextPhone]_vars

----------------------------------------------------------------------------
(* parse_company_name applied to a raw string and the loaded suffix list *)

InitCompany ==
    /\ TextIdle /\ PredictIdle /\ TableIdle /\ ServerIdle
    /\ \E f \in LegalFiles : legal_suffixes = load_legal_suffixes(f)
    /\ countries = {}

TypeCompanyChar(c) ==
    /\ ret = <<>>
    /\ Len(raw) < MaxLen
    /\ raw' = Append(raw, c)
    /\ UNCHANGED <<ret, legal_suffixes, countries, predictVars, tableVars, serverVars>>

LoadCompanySample(s) ==
    /\ ret = <<>>
    /\ raw = <<>>
    /\ raw' = s
    /\ UNCHANGED <<ret, legal_suffixes, countries, predictVars, tableVars, serverVars>>

CallParseCompanyName ==
    /\ ret = <<>>
    /\ ret' = <<parse_company_name(raw, legal_suffixes)>>
    /\ UNCHANGED <<raw, legal_suffixes, countries, predictVars, tableVars, serverVars>>

NextCompany ==
    \/ \E c \in CompanyChars : TypeCompanyChar(c)
    \/ \E s \in CompanySamples : LoadCompanySample(s)
    \/ CallParseCompanyName

SpecCompany == InitCompany /\ [][NextCompany]_vars

----------------------------------------------------------------------------
(* predict.py main() from the list of strings on: lines 144-165 *)

FRANCE_PADDED == <<" ", "F", "r", "a", "n", "c", "e">>
ACME_SHORT == <<"A", "c", "m", "e", " ", "I", "n", "c">>
BLANK == <<" ">>

ValuePool == {PHONE_LOCAL, DATE_DOTTED, FRANCE_PADDED, ACME_SHORT, BLANK}

\* a phone-like string with n digits: "(55...5) "
PhoneLike(n) == <<"(">> \o [i \in 1..n |-> "5"] \o <<")", " ">>

\* digit counts around the two limits of looks_like_phone
ProbeDigitCounts == {0, 6, 7, 15} \cup 16..MaxDigits

ProbePool ==
    {PhoneLike(n) : n \in ProbeDigitCounts} \cup {DATE_ISO, ACME_SHORT, <<>>}

InitPredict ==
    /\ TextIdle /\ PredictIdle /\ TableIdle /\ ServerIdle
    /\ legal_suffixes = load_legal_suffixes(LEGAL_INC_LTD)
    /\ \E f \in CountryFiles : countries = load_countries(f)

AppendValue(v, limit) ==
    /\ scores = <<>>
    /\ Len(values) < limit
    /\ values' = Append(values, v)
    /\ UNCHANGED <<scores, best_label, legal_suffixes, countries, textVars,
                   tableVars, serverVars>>

ClassifyColumn ==
    /\ scores = <<>>
    /\ LET sc == compute_scores(values, countries, legal_suffixes)
       IN /\ scores' = <<sc>>
          /\ best_label' = <<choose_label(sc)>>
    /\ UNCHANGED <<values, legal_suffixes, countries, textVars, tableVars, serverVars>>

NextPredict ==
    \/ \E v \in ValuePool : AppendValue(v, MaxValues)
    \/ ClassifyColumn

SpecPredict == InitPredict /\ [][NextPredict]_vars

NextScorers ==
    \/ \E v \in ProbePool : AppendValue(v, MaxProbeValues)
    \/ ClassifyColumn

SpecScorers == InitPredict /\ [][NextScorers]_vars

----------------------------------------------------------------------------
(* The table: a sequence of columns [name, cells].  A cell is the text of *)
(* its value (what str() gives), or NA for a missing value (a float nan). *)

NA == <<"NaN">>

NAN_TEXT == <<"n", "a", "n">>

\* str(v) of a cell
py_str(cell) == IF cell = NA THEN NAN_TEXT ELSE cell

\* Series.astype(str): before pandas 3 a missing value becomes the text "nan";
\* from pandas 3 on it stays missing
astype_str(cells, keeps_na) ==
    [i \in DOMAIN cells |->
        IF cells[i] = NA THEN (IF keeps_na THEN NA ELSE NAN_TEXT) ELSE cells[i]]

\* Series.fillna("")
fillna_empty(cells) ==
    [i \in DOMAIN cells |-> IF cells[i] = NA THEN <<>> ELSE cells[i]]

\* df[col].astype(str).fillna("").tolist()
column_values(cells, keeps_na) == fillna_empty(astype_str(cells, keeps_na))

columns_of(table) == [i \in DOMAIN table |-> table[i].name]

row_count(table) == IF table = <<>> THEN 0 ELSE Len(table[1].cells)

\* DataFrame.empty
is_empty(table) == table = <<>> \/ row_count(table) = 0

column_index(table, name) == CHOOSE i \in DOMAIN table : table[i].name = name

\* out_df[name] = cells: an existing column of that name is replaced where it
\* stands, a new one is added at the end
set_column(table, name, cells) ==
    IF \E i \in DOMAIN table : table[i].name = name
    THEN [table EXCEPT ![column_index(table, name)].cells = cells]
    ELSE Append(table, [name |-> name, cells |-> cells])

----------------------------------------------------------------------------
(* parser.py main() *)

\* lines 103-110: two candidates (col, type, score) per column, in column order
RECURSIVE candidates_of(_, _, _)
candidates_of(table, keeps_na, suffixes) ==
    IF table = <<>> THEN <<>>
    ELSE LET vs == column_values(Head(table).cells, keeps_na)
         IN <<<<Head(table).name, "PhoneNumber", score_phone(vs)>>,
              <<Head(table).name, "CompanyName", score_company(vs, suffixes)>>>>
            \o candidates_of(Tail(table), keeps_na, suffixes)

\* max(candidates, key=lambda x: x[2]): the first of the greatest
RECURSIVE max_candidate_from(_, _)
max_candidate_from(cands, kept) ==
    IF cands = <<>> THEN kept
    ELSE max_candidate_from(Tail(cands),
             IF frac_gt(Head(cands)[3], kept[3]) THEN Head(cands) ELSE kept)

RECURSIVE max_candidate_last(_, _)
max_candidate_last(cands, kept) ==
    IF cands = <<>> THEN kept
    ELSE max_candidate_last(Tail(cands),
             IF frac_ge(Head(cands)[3], kept[3]) THEN Head(cands) ELSE kept)

max_candidate_last_wins(cands) == max_candidate_last(Tail(cands), Head(cands))

max_candidate(cands) == max_candidate_from(Tail(cands), Head(cands))

\* lines 115-140: out_df from the best candidate
parsed_table(table, b, suffixes) ==
    LET cells == table[column_index(table, b[1])].cells
    IN IF b[2] = "PhoneNumber" /\ frac_gt(b[3], <<0, 1>>)
       THEN LET country_col == [i \in DOMAIN cells |->
                                   parse_phone_number(py_str(cells[i]))[1]]
                number_col == [i \in DOMAIN cells |->
                                  parse_phone_number(py_str(cells[i]))[2]]
            IN set_column(set_column(table, "Country", country_col),
                          "Number", number_col)
       ELSE IF b[2] = "CompanyName" /\ frac_gt(b[3], <<0, 1>>)
       THEN LET name_col == [i \in DOMAIN cells |->
                                parse_company_name(py_str(cells[i]), suffixes)[1]]
                legal_col == [i \in DOMAIN cells |->
                                 parse_company_name(py_str(cells[i]), suffixes)[2]]
            IN set_column(set_column(table, "Name", name_col), "Legal", legal_col)
       ELSE table

----------------------------------------------------------------------------
(* The two programs run on a table *)

Headers ==
    {<<"phone">>, <<"id", "phone">>, <<"Country", "phone">>,
     <<"company", "Name">>, <<"Number", "Legal">>}

CellPool == {PHONE_UK, ACME_SHORT, NA}

ColumnArgs == {"phone", "id", "Country", "company", "Name", "Number"}

InitTable ==
    /\ TextIdle /\ PredictIdle /\ ServerIdle
    /\ legal_suffixes = load_legal_suffixes(LEGAL_INC_LTD)
    /\ countries = load_countries(COUNTRIES_TXT)
    /\ \E h \in Headers : df = [i \in DOMAIN h |-> [name |-> h[i], cells |-> <<>>]]
    /\ astype_keeps_na \in BOOLEAN
    /\ handed = <<>>
    /\ out_df = <<>>
    /\ best = <<>>
    /\ pc = "start"

\* one more line of the CSV file
AddRow(row) ==
    /\ pc = "start"
    /\ row_count(df) < MaxRows
    /\ df' = [i \in DOMAIN df |-> [df[i] EXCEPT !.cells = Append(@, row[i])]]
    /\ UNCHANGED <<astype_keeps_na, handed, out_df, best, pc, legal_suffixes,
                   countries, textVars, predictVars, serverVars>>

\* parser.py main(): SystemExit on an empty table, else output.csv is written
ParserMain ==
    /\ pc = "start"
    /\ IF is_empty(df)
       THEN /\ pc' = "exit"
            /\ UNCHANGED <<handed, out_df, best>>
       ELSE LET b == max_candidate(candidates_of(df, astype_keeps_na, legal_suffixes))
            IN /\ handed' = [i \in DOMAIN df |->
                                [col |-> df[i].name,
                                 values |-> column_values(df[i].cells, astype_keeps_na)]]
               /\ best' = <<b>>
               /\ out_df' = parsed_table(df, b, legal_suffixes)
               /\ pc' = "parsed"
    /\ UNCHANGED <<df, astype_keeps_na, legal_suffixes, countries, textVars,
                   predictVars, serverVars>>

\* predict.py main(): SystemExit on an unknown column, else the label is printed
PredictMain(column) ==
    /\ pc = "start"
    /\ IF column \notin Range(columns_of(df))
       THEN /\ pc' = "exit"
            /\ UNCHANGED <<handed, predictVars>>
       ELSE LET vs == column_values(df[column_index(df, column)].cells, astype_keeps_na)
                sc == compute_scores(vs, countries, legal_suffixes)
            IN /\ values' = vs
               /\ handed' = <<[col |-> column, values |-> vs]>>
               /\ scores' = <<sc>>
               /\ best_label' = <<choose_label(sc)>>
               /\ pc' = "predicted"
    /\ UNCHANGED <<df, astype_keeps_na, out_df, best, legal_suffixes, countries,
                   textVars, serverVars>>

NextTable ==
    \/ \E row \in [DOMAIN df -> CellPool] : AddRow(row)
    \/ ParserMain
    \/ \E column \in ColumnArgs : PredictMain(column)

SpecTable == InitTable /\ [][NextTable]_vars

----------------------------------------------------------------------------
(* mcp_server/server.py.  A line of input is described by what json.loads *)
(* makes of it and, for a JSON object, by its "tool" and "args" members and *)
(* by the return code of the subprocess the tool would start: *)
(*   json: "blank" (empty after strip), "invalid" (JSONDecodeError), *)
(*         "number", "array" (valid JSON, not a dict), "object" *)
(*   tool: a tool name, "list_tools", "unknown" (another string), *)
(*         "missing" (no such member: None), "unhashable" (a list or a dict) *)
(*   args: "missing", "empty" ({}), "file_only" (file_path given), *)
(*         "complete" (file_path and column_name given), *)
(*         "not_a_dict" (a non-empty string or list) *)

TOOLS == <<"list_files", "column_prediction", "parse_file">>

Returns(result) == [raises |-> "", result |-> result]

Raises(exception) == [raises |-> exception, result |-> ""]

tool_list_files(args) == Returns("files")

tool_column_prediction(args, returncode) ==
    IF args = "not_a_dict" THEN Raises("AttributeError")
    ELSE IF args # "complete" THEN Raises("ValueError")
    ELSE IF returncode # 0 THEN Raises("RuntimeError")
    ELSE Returns("label")

tool_parse_file(args, returncode) ==
    IF args = "not_a_dict" THEN Raises("AttributeError")
    ELSE IF args \notin {"complete", "file_only"} THEN Raises("ValueError")
    ELSE IF returncode # 0 THEN Raises("RuntimeError")
    ELSE Returns("output")

call_tool(tool_name, args, returncode) ==
    CASE tool_name = "list_files" -> tool_list_files(args)
      [] tool_name = "column_prediction" -> tool_column_prediction(args, returncode)
      [] tool_name = "parse_file" -> tool_parse_file(args, returncode)

Response(ok, text) == [ok |-> ok, text |-> text]

\* handle_request(req): Returns(the response), or Raises(the exception that
\* leaves the function)
handle_request(req) ==
    IF req.json # "object" THEN Raises("AttributeError")
    ELSE LET args == IF req.args = "missing" THEN "empty" ELSE req.args
         IN IF req.tool = "list_tools" THEN Returns(Response(TRUE, "tools"))
            ELSE IF req.tool = "unhashable" THEN Raises("TypeError")
            ELSE IF req.tool \notin Range(TOOLS)
                 THEN Returns(Response(FALSE, "Unknown tool"))
            ELSE LET r == call_tool(req.tool, args, req.returncode)
                 IN IF r.raises = "" THEN Returns(Response(TRUE, r.result))
                    ELSE Returns(Response(FALSE, r.raises))

Line(json, tool, args, returncode) ==
    [json |-> json, tool |-> tool, args |-> args, returncode |-> returncode]

Lines ==
    {Line(j, "", "", 0) : j \in {"blank", "invalid", "number", "array"}}
    \cup {Line("object", t, a, 0) :
            t \in {"list_tools", "list_files", "column_prediction", "parse_file",
                   "unknown", "missing", "unhashable"},
            a \in {"missing", "empty", "file_only", "complete", "not_a_dict"}}
    \cup {Line("object", t, "complete", 1) : t \in {"column_prediction", "parse_file"}}

InitServer ==
    /\ TextIdle /\ PredictIdle /\ TableIdle /\ ServerIdle
    /\ legal_suffixes = <<>>
    /\ countries = {}

\* one iteration of "for line in sys.stdin"
ReadLine(line) ==
    /\ loop = "reading"
    /\ Len(stdin) < MaxLines
    /\ stdin' = Append(stdin, line)
    /\ IF line.json = "blank"
       THEN UNCHANGED <<stdout, loop>>
       ELSE IF line.json = "invalid"
       THEN /\ stdout' = Append(stdout, Response(FALSE, "Invalid JSON"))
            /\ UNCHANGED loop
       ELSE LET r == handle_request(line)
            IN IF r.raises = ""
               THEN /\ stdout' = Append(stdout, r.result)
                    /\ UNCHANGED loop
               ELSE /\ loop' = "crashed"
                    /\ UNCHANGED stdout
    /\ UNCHANGED <<legal_suffixes, countries, textVars, predictVars, tableVars>>

\* the end of sys.stdin
EndOfInput ==
    /\ loop = "reading"
    /\ loop' = "ended"
    /\ UNCHANGED <<stdin, stdout, legal_suffixes, countries, textVars, predictVars,
                   tableVars>>

NextServer ==
    \/ \E line \in Lines : ReadLine(line)
    \/ EndOfInput

SpecServer == InitServer /\ [][NextServer]_vars

----------------------------------------------------------------------------
(* Claims about parse_phone_number (checked under SpecPhone) *)

C4_DialLengths(ds) ==
    {n \in 1..3 : Len(ds) >= n /\ SubSeq(ds, 1, n) \in DOMAIN DIAL_CODE_TO_COUNTRY}

C4_Expected(s) ==
    LET t == strip(s)
        ds == SelectSeq(s, IsDigit)
        found == C4_DialLengths(ds)
    IN IF ds = <<>> THEN <<<<>>, <<>>>>
       ELSE IF t # <<>> /\ t[1] = "+" /\ found # {}
            THEN LET n == CHOOSE n \in found : \A k \in found : k <= n
                 IN <<DIAL_CODE_TO_COUNTRY[SubSeq(ds, 1, n)],
                      SubSeq(ds, n + 1, Len(ds))>>
            ELSE <<<<>>, ds>>

\* C4: parse_phone_number returns ("", "") for a string without digits;
\* for a trimmed string starting with "+" whose first 3, 2 or 1 digits (the
\* longest first) are a dial code of the table it returns the mapped country
\* and the digits after that prefix; otherwise it returns ("", all digits).
\* "+14155552671" gives ("US", "4155552671"), "5551234" gives ("", "5551234").
C4_ParsePhoneNumber ==
    ret # <<>> =>
        /\ ret[1] = C4_Expected(raw)
        /\ raw = PHONE_US =>
               ret[1] = <<US, <<"4", "1", "5", "5", "5", "5", "2", "6", "7", "1">>>>
        /\ raw = PHONE_LOCAL => ret[1] = <<<<>>, PHONE_LOCAL>>

C4_Witness == ret # <<>> /\ raw = PHONE_US /\ ret[1][1] = US

----------------------------------------------------------------------------
(* Claims about parse_company_name (checked under SpecCompany) *)

ACME_WIDGETS == <<"A", "c", "m", "e", " ", "W", "i", "d", "g", "e", "t", "s">>

C5_Case == ret # <<>> /\ raw = ACME_INC /\ legal_suffixes = <<inc>>

\* C5 as stated: parse_company_name("Acme Widgets, Inc.", ["inc"]) returns
\* ("Acme Widgets", "Inc."), Legal keeping its trailing period.
C5_Original == C5_Case => ret[1] = <<ACME_WIDGETS, <<"I", "n", "c", ".">>>>

\* C5 as amended: parse_company_name("Acme Widgets, Inc.", ["inc"]) returns
\* ("Acme Widgets", "Inc"): the comma is stripped from Name and the trailing
\* period is stripped from Legal by the same trim rule.
C5_Amended == C5_Case => ret[1] = <<ACME_WIDGETS, <<"I", "n", "c">>>>

C5_Witness == C5_Case /\ ret[1][1] = ACME_WIDGETS

\* suf occurs in s at offset i as a whole word, whatever the case of s
C10_OccursAt(suf, s, i) ==
    \E j \in i..Len(s) :
        /\ lower(SubSeq(s, i + 1, j)) = suf
        /\ word_boundary(s, i)
        /\ word_boundary(s, j)

C10_Occurs(suf, s) == \E i \in 0..Len(s) : C10_OccursAt(suf, s, i)

C10_Expected(r, suffixes) ==
    LET s == strip(r)
        hits == {k \in DOMAIN suffixes : C10_Occurs(suffixes[k], s)}
    IN IF s = <<>> THEN <<<<>>, <<>>>>
       ELSE IF hits = {} THEN <<s, <<>>>>
       ELSE LET k == CHOOSE k \in hits : \A h \in hits : k <= h
                at == {i \in 0..Len(s) : C10_OccursAt(suffixes[k], s, i)}
                i == CHOOSE i \in at : \A h \in at : i <= h
            IN <<strip_chars(SubSeq(s, 1, i), {" ", ",", ".", "-"}),
                 strip_chars(SubSeq(s, i + 1, Len(s)), {" ", ",", ".", "-"})>>

\* C10: parse_company_name returns ("", "") for a string that is empty after
\* trimming; otherwise it takes the first suffix of the list with a whole-word,
\* case-insensitive occurrence in the string and splits the original string at
\* the start of that occurrence, Name before it and Legal from it on, each
\* trimmed of spaces, commas, periods and hyphens; without such a suffix it
\* returns (trimmed string, ""), as for "Standalone Name" with ["inc", "ltd"].
C10_ParseCompanyName ==
    ret # <<>> =>
        /\ ret[1] = C10_Expected(raw, legal_suffixes)
        /\ (raw = STANDALONE /\ legal_suffixes = <<inc, ltd>>) =>
               ret[1] = <<STANDALONE, <<>>>>

----------------------------------------------------------------------------
(* Claims about the classification policy and the scorers *)

KeyIndex(k) == CHOOSE i \in DOMAIN SCORE_KEYS : SCORE_KEYS[i] = k

C1_ArgMax(sc) ==
    CHOOSE k \in Range(SCORE_KEYS) :
        /\ \A j \in Range(SCORE_KEYS) : frac_ge(sc[k], sc[j])
        /\ \A j \in Range(SCORE_KEYS) :
               frac_eq(sc[j], sc[k]) => KeyIndex(k) <= KeyIndex(j)

C1_Expected(sc) ==
    CASE frac_ge(sc["PhoneNumber"], <<8, 10>>) -> "PhoneNumber"
      [] /\ ~frac_ge(sc["PhoneNumber"], <<8, 10>>)
         /\ frac_ge(sc["Date"], <<8, 10>>) -> "Date"
      [] /\ ~frac_ge(sc["PhoneNumber"], <<8, 10>>)
         /\ ~frac_ge(sc["Date"], <<8, 10>>)
         /\ frac_ge(sc["Country"], <<8, 10>>) -> "Country"
      [] OTHER -> IF frac_lt(sc[C1_ArgMax(sc)], <<3, 10>>)
                  THEN "Other" ELSE C1_ArgMax(sc)

IsBlank(v) == \A i \in DOMAIN v : IsSpace(v[i])

NonBlank(vs) == {i \in DOMAIN vs : ~IsBlank(vs[i])}

CountryHits(vs, cs) == {i \in NonBlank(vs) : lower(strip(vs[i])) \in cs}

Without(vs, i) == SubSeq(vs, 1, i - 1) \o SubSeq(vs, i + 1, Len(vs))

\* C8: score_country is 0.0 for an empty country set; otherwise it is the
\* number of values whose trimmed lowercase form is in the set divided by the
\* number of values that are non-empty after trimming, and 0.0 when no value
\* is.  Removing a blank value leaves the country score as it is, while
\* score_phone and score_company divide by the number of all values.
C8_ScoreCountry ==
    scores # <<>> =>
        LET sc == scores[1]
        IN /\ countries = {} => sc["Country"] = <<0, 1>>
           /\ (countries # {} /\ NonBlank(values) = {}) => sc["Country"] = <<0, 1>>
           /\ (countries # {} /\ NonBlank(values) # {}) =>
                  sc["Country"] = <<Cardinality(CountryHits(values, countries)),
                                    Cardinality(NonBlank(values))>>
           /\ \A i \in DOMAIN values :
                  IsBlank(values[i]) =>
                      frac_eq(score_country(Without(values, i), countries),
                              sc["Country"])
           /\ sc["PhoneNumber"][2] = Max(Len(values), 1)
           /\ sc["CompanyName"][2] = Max(Len(values), 1)
           /\ sc["PhoneNumber"][1] <= Cardinality(NonBlank(values))
           /\ sc["CompanyName"][1] <= Cardinality(NonBlank(values))

C8_Witness ==
    /\ scores # <<>>
    /\ countries # {}
    /\ \E i \in DOMAIN values : IsBlank(values[i])
    /\ Cardinality(CountryHits(values, countries)) = 2
    /\ scores[1]["Country"] = <<2, 3>>
    /\ scores[1]["PhoneNumber"] = <<1, 5>>

DigitCount(v) == Cardinality({i \in DOMAIN v : IsDigit(v[i])})

C9_Matching(kind, vs) ==
    {i \in DOMAIN vs :
        CASE kind = "PhoneNumber" -> 7 <= DigitCount(vs[i]) /\ DigitCount(vs[i]) <= 15
          [] kind = "Date" -> is_parsable_date(vs[i])
          [] kind = "CompanyName" -> looks_like_company(vs[i], legal_suffixes)}

C9_Score(kind, vs) ==
    CASE kind = "PhoneNumber" -> score_phone(vs)
      [] kind = "Date" -> score_date(vs)
      [] kind = "CompanyName" -> score_company(vs, legal_suffixes)

\* C9: score_phone, score_date and score_company each return
\* (number of values satisfying the predicate) / max(number of values, 1), a
\* value in [0, 1] that is 0.0 on the empty list and does not decrease when a
\* non-matching value is replaced by a matching one; the phone predicate is
\* that the value has 7 to 15 digits once every non-digit is removed.
C9_Scorers ==
    scores # <<>> =>
        \A kind \in {"PhoneNumber", "Date", "CompanyName"} :
            LET s == scores[1][kind]
            IN /\ s = <<Cardinality(C9_Matching(kind, values)), Max(Len(values), 1)>>
               /\ 0 <= s[1] /\ s[1] <= s[2] /\ s[2] >= 1
               /\ values = <<>> => s = <<0, 1>>
               /\ \A i \in DOMAIN values : \A v \in ProbePool :
                      (i \notin C9_Matching(kind, values)
                          /\ 1 \in C9_Matching(kind, <<v>>)) =>
                          frac_ge(C9_Score(kind, [values EXCEPT ![i] = v]), s)

C9_Witness ==
    /\ scores # <<>>
    /\ Len(values) = 2
    /\ DigitCount(values[1]) = 15
    /\ DigitCount(values[2]) = 16
    /\ scores[1]["PhoneNumber"] = <<1, 2>>

----------------------------------------------------------------------------
(* Claims about the two programs run on a table (checked under SpecTable) *)

Parsed == pc = "parsed" /\ best # <<>>

ParserRan == Parsed /\ frac_gt(best[1][3], <<0, 1>>)

\* C2: the table written by the parse operation holds every original column
\* with its name, position and cells unchanged, whatever the column names
\* are, and the two derived columns are two more columns after the original
\* ones.
C2_OriginalColumnsKept ==
    Parsed =>
        /\ Len(out_df) >= Len(df)
        /\ \A i \in DOMAIN df : out_df[i] = df[i]
        /\ ParserRan => Len(out_df) = Len(df) + 2

TypeIndex(type) == IF type = "PhoneNumber" THEN 1 ELSE 2

C3_Score(i, type) ==
    LET vs == column_values(df[i].cells, astype_keeps_na)
    IN IF type = "PhoneNumber" THEN score_phone(vs)
       ELSE score_company(vs, legal_suffixes)

\* C3: the selector picks the (column, type) candidate of maximum score over
\* the PhoneNumber and CompanyName scores of every column; among equals the
\* earliest column wins and, within a column, PhoneNumber wins over
\* CompanyName.  When the winning score is 0 no parser runs and the table
\* written equals the one read.
C3_BestColumn ==
    Parsed =>
        LET b == best[1]
            bi == column_index(df, b[1])
        IN /\ b[2] \in {"PhoneNumber", "CompanyName"}
           /\ b[3] = C3_Score(bi, b[2])
           /\ \A i \in DOMAIN df : \A type \in {"PhoneNumber", "CompanyName"} :
                  /\ frac_ge(b[3], C3_Score(i, type))
                  /\ frac_eq(b[3], C3_Score(i, type)) =>
                         \/ bi < i
                         \/ bi = i /\ TypeIndex(b[2]) <= TypeIndex(type)
           /\ frac_eq(b[3], <<0, 1>>) => out_df = df

C3_Witness ==
    /\ Parsed
    /\ Len(df) = 2
    /\ best[1][1] = df[1].name
    /\ best[1][2] = "CompanyName"
    /\ frac_eq(best[1][3], C3_Score(2, "PhoneNumber"))
    /\ frac_gt(best[1][3], <<0, 1>>)

\* C7: in the value lists handed to the scorers by the classify and the parse
\* operation, every missing cell of the table is the empty string.
C7_MissingIsEmpty ==
    pc \in {"parsed", "predicted"} =>
        \A h \in DOMAIN handed :
            LET cells == df[column_index(df, handed[h].col)].cells
            IN \A r \in DOMAIN cells :
                   cells[r] = NA => handed[h].values[r] = <<>>

----------------------------------------------------------------------------
(* Claims about the request loop (checked under SpecServer) *)

NonBlankLines == {i \in DOMAIN stdin : stdin[i].json # "blank"}

\* C6: whatever the lines are (not JSON, JSON that is no request object, an
\* unknown tool, a tool that raises), the server writes exactly one response
\* per non-blank line and goes on with the following lines; no request ends
\* the loop or crashes the process.
C6_LoopSurvivesEveryLine ==
    /\ loop # "crashed"
    /\ Len(stdout) = Cardinality(NonBlankLines)

====
